---- MODULE Spec2Model ----
(***************************************************************************)
(* A model of the orchestration logic of the Go extension: the language    *)
(* server bridge (goLanguageServer.ts), the linter runner (goLint.ts) and  *)
(* the tool installer (goInstallTools.ts).                                 *)
(***************************************************************************)
EXTENDS Integers, Sequences, FiniteSets, TLC

(***************************************************************************)
(* Bounds of the model.                                                    *)
(***************************************************************************)
\* largest patch number of a version
MaxVer == 1
\* longest version list the registry answers with
MaxList == 2
\* most lines the output of "gopls version" has
MaxLines == 3
\* most goLint calls of a session
MaxLints == 3
\* most tools one installTools call is given
MaxTools == 2
\* most invocations of the restart command
MaxRestarts == 2
\* most promptForMissingTool calls of a session
MaxPrompts == 2

VARIABLES
    vgPc,            \* position of shouldUpdateLanguageServer
    vgTool,          \* tool.name
    vgExec,          \* outcome of execFile(goplsPath, ['version'])
    vgUsersVersion,  \* usersVersion
    vgData,          \* answer of WebRequest.json(listURL)
    vgFetched,       \* whether the registry was asked
    vgRanVersion,    \* whether the version sub-command was run
    vgResult,        \* what the promise settled with
    running,         \* goLint.ts: let running
    tokenCancelled,  \* goLint.ts: whether tokenSource has been cancelled
    lintRuns,        \* the goLint calls made, in order, each with its tool run
    applied,         \* the calls whose result handleDiagnosticErrors was given
    instPc,          \* position of installTools
    instMissing,     \* the tools installTools was given
    instRes,         \* the array the reduce chain has built so far
    instRan,         \* per tool: whether "go get" was run for it
    instInstalled,   \* per tool: whether its binary was in fact built
    instReport,      \* what the last then printed
    declinedInstalls, \* goInstallTools.ts: const declinedInstalls
    promptCalls,     \* the promptForMissingTool calls made, in order
    installBatches,  \* the tool lists installTools was called with by the prompts
    tpPc,            \* position of getLanguageServerToolPath
    tpEnv,           \* what getLanguageServerToolPath finds: settings, folders, binaries
    tpResult,        \* what getLanguageServerToolPath returned
    tpMessages,      \* the messages getLanguageServerToolPath showed
    chkPc,           \* position of check
    chkConfig,       \* goConfig: buildOnSave, lintOnSave, vetOnSave
    chkEnabled,      \* the runs goConfig enables on save
    chkRuns,         \* per tool: the state of the promise of its run
    chkPromise,      \* the state of the promise check returned
    chkResults,      \* the tools whose results that promise resolved with
    renames,         \* the calls of provideRenameEdits, in the order they were made
    renameInfoShown, \* number of 'gorename is not available' messages shown
    fmtConfig,       \* go.formatTool and go.formatFlags of the document
    fmtRuns,         \* the runs of the format tool made for one call of formatDocument, outermost first
    fmtUpdatePrompts, \* number of promptForUpdatingTool('goreturns') calls
    goConfig,        \* vscode.workspace.getConfiguration('go'), as it is now
    config,          \* registerLanguageFeatures: const config
    lsPc,            \* position of registerLanguageFeatures
    toolName,        \* registerLanguageFeatures: const toolName
    updatePrompted,  \* whether promptForUpdatingTool was called
    clientState,     \* the state of the LanguageClient c
    stopPending,     \* whether a c.stop() has yet to complete
    initializeResult, \* c.initializeResult
    onReadyPending,  \* whether the then of c.onReady() has yet to run
    capabilities,    \* what the then of c.onReady() read
    errorShown,      \* whether the error message of line 190 was shown
    fallback,        \* per feature: the fallback providers registered
    liveDiagnostics, \* the subscriptions of parseLiveFile to document changes
    disposables,     \* what c.start() returned, each disposed or not
    restarts,        \* the invocations of go.languageserver.restart
    lastRequest,     \* the last call the client made of a middleware handler
    reloadPrompt     \* the reload message watchLanguageServerConfiguration showed last

vgVars == <<vgPc, vgTool, vgExec, vgUsersVersion, vgData, vgFetched, vgRanVersion, vgResult>>

lintVars == <<running, tokenCancelled, lintRuns, applied>>

instVars == <<instPc, instMissing, instRes, instRan, instInstalled, instReport>>

promptVars == <<declinedInstalls, promptCalls, installBatches>>

pathVars == <<tpPc, tpEnv, tpResult, tpMessages>>

checkVars == <<chkPc, chkConfig, chkEnabled, chkRuns, chkPromise, chkResults>>

renameVars == <<renames, renameInfoShown>>

formatVars == <<fmtConfig, fmtRuns, fmtUpdatePrompts>>

lsVars ==
    <<goConfig, config, lsPc, toolName, updatePrompted, clientState, stopPending,
      initializeResult, onReadyPending, capabilities, errorShown, fallback,
      liveDiagnostics, disposables, restarts, lastRequest, reloadPrompt>>

vars == <<vgVars, lintVars, instVars, promptVars, pathVars, checkVars, renameVars, formatVars, lsVars>>

(***************************************************************************)
(* Each specification moves one part of the extension and leaves the       *)
(* others as they are at activation.                                       *)
(***************************************************************************)
VGIdle ==
    /\ vgPc = "start"
    /\ vgTool = "gopls"
    /\ vgExec = [ok |-> FALSE, lines |-> <<>>]
    /\ vgUsersVersion = [kind |-> "null"]
    /\ vgData = [ok |-> FALSE, list |-> <<>>]
    /\ vgFetched = FALSE
    /\ vgRanVersion = FALSE
    /\ vgResult = "pending"

\* no installTools call has been made
InstInit ==
    /\ instPc = "idle"
    /\ instMissing = <<>>
    /\ instRes = <<>>
    /\ instRan = <<>>
    /\ instInstalled = <<>>
    /\ instReport = "none"

\* lines 17-21: nothing declined, no promptForMissingTool call made
PromptIdle ==
    /\ declinedInstalls = {}
    /\ promptCalls = <<>>
    /\ installBatches = <<>>

\* what the tool path lookup can find for one of the two settings of
\* alternateTools: no string, or a path whose tool name is the one given
NoAlternate == "undefined"

\* getLanguageServerToolPath has not been called
PathIdle ==
    /\ tpPc = "idle"
    /\ tpEnv = [useLanguageServer |-> FALSE, sameGopath |-> TRUE, goplsAbsolute |-> FALSE,
                langserverAbsolute |-> FALSE, goplsAlternate |-> NoAlternate,
                golangserverAlternate |-> NoAlternate]
    /\ tpResult = "pending"
    /\ tpMessages = {}

\* the runs check can start
CheckTools == {"build", "lint", "vet"}

\* check has not been called
CheckIdle ==
    /\ chkPc = "idle"
    /\ chkConfig = [t \in CheckTools |-> "off"]
    /\ chkEnabled = {}
    /\ chkRuns = [t \in CheckTools |-> "off"]
    /\ chkPromise = "none"
    /\ chkResults = {}

\* provideRenameEdits has not been called
RenameIdle ==
    /\ renames = <<>>
    /\ renameInfoShown = 0

\* formatDocument has not been called
FormatIdle ==
    /\ fmtConfig = [formatTool |-> "", formatFlags |-> <<>>]
    /\ fmtRuns = <<>>
    /\ fmtUpdatePrompts = 0

(***************************************************************************)
(* The features of LanguageServerConfig and the configuration.             *)
(***************************************************************************)
Features ==
    {"completion", "diagnostics", "format", "definition", "typeDefinition", "hover",
     "references", "rename", "signatureHelp", "documentSymbols", "workspaceSymbols",
     "implementation", "documentLink"}

\* the features a server states in its capabilities (diagnostics are pushed
\* by the server and are no capability)
CapFeatures == Features \ {"diagnostics"}

\* the features registerUsualProviders and the then of onReady have a provider for
UsualFeatures ==
    {"completion", "hover", "definition", "references", "documentSymbols",
     "workspaceSymbols", "signatureHelp", "implementation", "format",
     "typeDefinition", "rename"}

AllOn == [f \in Features |-> TRUE]

\* languageServerExperimentalFeatures: every toggle on, every toggle off, one
\* toggle off, one toggle on
FeatureSets ==
    {[f \in Features |-> f \notin off] :
        off \in {{}, Features, {"hover"}, Features \ {"hover"}}}

Configs == [useLanguageServer : BOOLEAN, features : FeatureSets]

NoConfig == [parsed |-> FALSE, enabled |-> FALSE, features |-> AllOn]

\* the capability sets a server may state: every capability, none, all but
\* one, only one
CapabilitySets == {CapFeatures, {}, CapFeatures \ {"hover"}, {"hover"}}

FullCapabilities == [known |-> TRUE, has |-> TRUE, caps |-> CapFeatures]

NoInitializeResult == [known |-> FALSE, has |-> FALSE, caps |-> {}]

\* c.initializeResult once the server is ready: with capabilities, or without
InitializeResults ==
    {[known |-> TRUE, has |-> FALSE, caps |-> {}]}
        \cup [known : {TRUE}, has : {TRUE}, caps : CapabilitySets]

NoCapabilities == [read |-> FALSE, has |-> FALSE, caps |-> {}]

NoRequest == [feature |-> "none", outcome |-> "none"]

\* registerLanguageFeatures has not been called
LSInit ==
    /\ config = NoConfig
    /\ lsPc = "start"
    /\ toolName = "none"
    /\ updatePrompted = FALSE
    /\ clientState = "none"
    /\ stopPending = FALSE
    /\ initializeResult = NoInitializeResult
    /\ onReadyPending = FALSE
    /\ capabilities = NoCapabilities
    /\ errorShown = FALSE
    /\ fallback = [f \in Features |-> 0]
    /\ liveDiagnostics = 0
    /\ disposables = <<>>
    /\ restarts = <<>>
    /\ lastRequest = NoRequest
    /\ reloadPrompt = "none"

LSIdle == goConfig = [useLanguageServer |-> FALSE, features |-> AllOn] /\ LSInit

\* goLint.ts lines 96-97: a token source that is not cancelled, nothing running
LintInit ==
    /\ running = FALSE
    /\ tokenCancelled = FALSE
    /\ lintRuns = <<>>
    /\ applied = {}

(***************************************************************************)
(* Versions.  A version string "vX.Y.Z" or "vX.Y.Z-pre" is the record of   *)
(* its three numbers and of whether it carries a prerelease tag.           *)
(***************************************************************************)
NoVersion == [kind |-> "null"]

VersionStrings ==
    [kind : {"semver"}, major : {0, 1}, minor : {0, 1}, patch : 0..MaxVer, pre : BOOLEAN]

\* semver.coerce: the first X.Y.Z of the string, the prerelease tag dropped;
\* null when the string holds no number.
coerce(s) ==
    IF s.kind = "semver"
    THEN [kind |-> "semver", major |-> s.major, minor |-> s.minor, patch |-> s.patch, pre |-> FALSE]
    ELSE NoVersion

\* SemVer.compareMain
compareMain(a, b) ==
    IF a.major # b.major THEN (IF a.major < b.major THEN -1 ELSE 1)
    ELSE IF a.minor # b.minor THEN (IF a.minor < b.minor THEN -1 ELSE 1)
    ELSE IF a.patch # b.patch THEN (IF a.patch < b.patch THEN -1 ELSE 1)
    ELSE 0

\* SemVer.comparePre: a version with a prerelease tag is lower than the same
\* version without one.
comparePre(a, b) ==
    IF a.pre /\ ~b.pre THEN -1
    ELSE IF ~a.pre /\ b.pre THEN 1
    ELSE 0

\* semver.compare
compare(a, b) ==
    IF compareMain(a, b) # 0 THEN compareMain(a, b) ELSE comparePre(a, b)

\* semver.rcompare
rcompare(a, b) == compare(b, a)

\* semver.lt
lt(a, b) == compare(a, b) < 0

\* new SemVer(x) throws a TypeError when x is no version.
Invalid(v) == v.kind # "semver"

(***************************************************************************)
(* Array.prototype.sort(cmp): insertion of each element into the sorted    *)
(* prefix, an element going after those it does not precede.               *)
(***************************************************************************)
RECURSIVE InsertAscending(_, _)
InsertAscending(x, s) ==
    IF s = <<>> THEN <<x>>
    ELSE IF compare(x, Head(s)) < 0 THEN <<x>> \o s
    ELSE <<Head(s)>> \o InsertAscending(x, Tail(s))

\* a sort with semver.compare in the place of semver.rcompare
RECURSIVE SortAscending(_)
SortAscending(s) ==
    IF s = <<>> THEN <<>>
    ELSE InsertAscending(s[Len(s)], SortAscending(SubSeq(s, 1, Len(s) - 1)))

RECURSIVE Insert(_, _)
Insert(x, s) ==
    IF s = <<>> THEN <<x>>
    ELSE IF rcompare(x, Head(s)) < 0 THEN <<x>> \o s
    ELSE <<Head(s)>> \o Insert(x, Tail(s))

\* versions.sort(semver.rcompare)
RECURSIVE SortVersions(_)
SortVersions(s) ==
    IF s = <<>> THEN <<>>
    ELSE Insert(s[Len(s)], SortVersions(SubSeq(s, 1, Len(s) - 1)))

(***************************************************************************)
(* The output of "gopls version": lines, each the sequence of its          *)
(* space-separated words, each word the sequence of its @-separated parts. *)
(***************************************************************************)
Devel == [kind |-> "devel"]
Empty == [kind |-> "empty"]
ModulePath == [kind |-> "path"]
CheckSum == [kind |-> "sum"]

InfoLine == << <<[kind |-> "info"]>> >>

SumLines ==
    {<< <<ModulePath, v>>, <<CheckSum>> >> : v \in VersionStrings \cup {Devel, Empty}}
        \cup {<< <<ModulePath>>, <<CheckSum>> >>}

\* output.trim().split('\n'): an empty output is one empty line
Outputs ==
    {<<InfoLine>>}
        \cup {<<InfoLine, l>> : l \in SumLines}
        \cup UNION {{<<InfoLine, l>> \o [i \in 1..n |-> InfoLine] : l \in SumLines} : n \in 1..(MaxLines - 2)}

ExecResults == {[ok |-> FALSE, lines |-> <<>>]} \cup [ok : {TRUE}, lines : Outputs]

\* a reading that takes the second line whenever there is one
goplsVersionAnyLines(exec) ==
    IF ~exec.ok THEN NoVersion
    ELSE IF Len(exec.lines) < 2 THEN NoVersion
    ELSE LET moduleVersion == exec.lines[2][1]
         IN IF Len(moduleVersion) < 2 THEN NoVersion ELSE moduleVersion[2]

\* goplsVersion: null when the command fails or its output is not two lines or
\* the first word of the second line holds no @; else what follows the @.
goplsVersion(exec) ==
    IF ~exec.ok THEN NoVersion
    ELSE IF Len(exec.lines) # 2 THEN NoVersion
    ELSE LET moduleVersion == exec.lines[2][1]
         IN IF Len(moduleVersion) < 2 THEN NoVersion ELSE moduleVersion[2]

\* a reading of !usersVersion under which only the empty string is falsy
FalsyEmptyOnly(v) == v.kind = "empty"

\* !usersVersion: null and the empty string are falsy
Falsy(v) == v.kind \in {"null", "empty"}

(***************************************************************************)
(* The registry's answer: the fetch fails, or a list of version strings.   *)
(***************************************************************************)
RECURSIVE SeqsUpTo(_, _)
SeqsUpTo(S, n) ==
    IF n = 0 THEN {<<>>}
    ELSE LET shorter == SeqsUpTo(S, n - 1)
         IN shorter \cup {Append(s, x) : s \in {t \in shorter : Len(t) = n - 1}, x \in S}

FetchFailed == [ok |-> FALSE, list |-> <<>>]

Registry == {FetchFailed} \cup [ok : {TRUE}, list : SeqsUpTo(VersionStrings, MaxList)]

\* data.trim().split('\n'): an empty body is one empty string
SplitLines(list) == IF list = <<>> THEN <<Empty>> ELSE list

\* lines 419-428: coerce, sort descending, compare with the first
CompareWithLatest(usersVersion, list) ==
    LET versions == [i \in 1..Len(SplitLines(list)) |-> coerce(SplitLines(list)[i])]
    IN IF Len(versions) = 0 THEN "false"
       ELSE IF Len(versions) > 1 /\ \E i \in 1..Len(versions) : Invalid(versions[i]) THEN "reject"
       ELSE IF Invalid(usersVersion) \/ Invalid(SortVersions(versions)[1]) THEN "reject"
       ELSE IF lt(usersVersion, SortVersions(versions)[1]) THEN "true" ELSE "false"

(***************************************************************************)
(* shouldUpdateLanguageServer, one action per stretch between awaits.      *)
(***************************************************************************)
ToolNames == {"gopls", "go-langserver"}

VGInit ==
    /\ LintInit
    /\ InstInit
    /\ FormatIdle
    /\ RenameIdle
    /\ CheckIdle
    /\ PromptIdle
    /\ PathIdle
    /\ LSIdle
    /\ vgPc = "start"
    /\ vgTool \in ToolNames
    /\ vgExec = [ok |-> FALSE, lines |-> <<>>]
    /\ vgUsersVersion = NoVersion
    /\ vgData = FetchFailed
    /\ vgFetched = FALSE
    /\ vgRanVersion = FALSE
    /\ vgResult = "pending"

\* a reading that starts the version command whatever the tool
VGCallAnyTool ==
    /\ vgPc = "start"
    /\ vgPc' = "awaitVersion"
    /\ vgRanVersion' = TRUE
    /\ UNCHANGED vgResult
    /\ UNCHANGED <<vgTool, vgExec, vgUsersVersion, vgData, vgFetched>>
    /\ UNCHANGED <<lintVars, instVars, promptVars, pathVars, checkVars, renameVars, formatVars, lsVars>>

\* lines 398-405: only gopls is looked at; its version command is started
VGCall ==
    /\ vgPc = "start"
    /\ IF vgTool # "gopls"
       THEN /\ vgPc' = "done"
            /\ vgResult' = "false"
            /\ UNCHANGED vgRanVersion
       ELSE /\ vgPc' = "awaitVersion"
            /\ vgRanVersion' = TRUE
            /\ UNCHANGED vgResult
    /\ UNCHANGED <<vgTool, vgExec, vgUsersVersion, vgData, vgFetched>>
    /\ UNCHANGED <<lintVars, instVars, promptVars, pathVars, checkVars, renameVars, formatVars, lsVars>>

\* a reading without the developer-version case
AfterVersionNoDevel(usersVersion) ==
    IF Falsy(usersVersion) THEN "true" ELSE "fetch"

\* what lines 405-417 do with the version the command gave
AfterVersion(usersVersion) ==
    IF Falsy(usersVersion) THEN "true"
    ELSE IF usersVersion = Devel THEN "false"
    ELSE "fetch"

\* lines 405-417: the version command has ended
VGVersionReturns ==
    /\ vgPc = "awaitVersion"
    /\ \E exec \in ExecResults :
        /\ vgExec' = exec
        /\ vgUsersVersion' = goplsVersion(exec)
        /\ IF AfterVersion(goplsVersion(exec)) = "fetch"
           THEN /\ vgPc' = "awaitFetch"
                /\ vgFetched' = TRUE
                /\ UNCHANGED vgResult
           ELSE /\ vgPc' = "done"
                /\ vgResult' = AfterVersion(goplsVersion(exec))
                /\ UNCHANGED vgFetched
    /\ UNCHANGED <<vgTool, vgData, vgRanVersion>>
    /\ UNCHANGED <<lintVars, instVars, promptVars, pathVars, checkVars, renameVars, formatVars, lsVars>>

\* lines 417-428: the registry has answered, or the fetch has failed
VGFetchReturns ==
    /\ vgPc = "awaitFetch"
    /\ \E data \in Registry :
        /\ vgData' = data
        /\ vgResult' = IF data.ok THEN CompareWithLatest(vgUsersVersion, data.list) ELSE "reject"
    /\ vgPc' = "done"
    /\ UNCHANGED <<vgTool, vgExec, vgUsersVersion, vgFetched, vgRanVersion>>
    /\ UNCHANGED <<lintVars, instVars, promptVars, pathVars, checkVars, renameVars, formatVars, lsVars>>

\* shouldUpdateLanguageServer from its call to its result
shouldUpdateLanguageServer(tool, exec, data) ==
    IF tool # "gopls" THEN "false"
    ELSE IF AfterVersion(goplsVersion(exec)) # "fetch" THEN AfterVersion(goplsVersion(exec))
    ELSE IF data.ok THEN CompareWithLatest(goplsVersion(exec), data.list)
    ELSE "reject"

VGNext == VGCall \/ VGVersionReturns \/ VGFetchReturns

SpecVersion == VGInit /\ [][VGNext]_vars

(***************************************************************************)
(* The order of versions, stated apart from the comparison functions: the  *)
(* rank of a version among all versions.                                   *)
(***************************************************************************)
Rank(v) ==
    (((v.major * (MaxVer + 2)) + v.minor) * (MaxVer + 2) + v.patch) * 2 + (IF v.pre THEN 0 ELSE 1)

\* the rank of a registry entry once its prerelease tag is dropped
CoercedRank(s) == Rank([s EXCEPT !.pre = FALSE])

MaxCoercedRank(list) ==
    CHOOSE r \in {CoercedRank(list[i]) : i \in 1..Len(list)} :
        \A i \in 1..Len(list) : CoercedRank(list[i]) <= r

\* the registry answered the installed version V with a non-empty list
VGCompared ==
    /\ vgPc = "done"
    /\ vgFetched
    /\ vgData.ok
    /\ vgData.list # <<>>
    /\ vgUsersVersion.kind = "semver"

\* C8: for gopls with a parseable installed version V other than "(devel)"
\* and a non-empty registry list, shouldUpdateLanguageServer returns true if
\* and only if V is strictly lower than the maximum of the coerced registry
\* versions, whatever the order of the list.
C8_UpdateIffBelowMaximum ==
    VGCompared =>
        /\ vgResult \in {"true", "false"}
        /\ vgResult = "true" <=> Rank(vgUsersVersion) < MaxCoercedRank(vgData.list)

\* an update is recommended against a list whose maximum is not its first entry
C8_Witness ==
    /\ VGCompared
    /\ vgResult = "true"
    /\ Len(vgData.list) = 2
    /\ CoercedRank(vgData.list[1]) < CoercedRank(vgData.list[2])
    /\ Rank(vgUsersVersion) > CoercedRank(vgData.list[1])

\* C9: when the installed gopls reports the version "(devel)",
\* shouldUpdateLanguageServer returns false and never asks the registry.
C9_DevelNeverUpdates ==
    (vgPc # "awaitVersion" /\ vgRanVersion /\ vgUsersVersion = Devel) =>
        /\ vgPc = "done"
        /\ vgResult = "false"
        /\ ~vgFetched

C9_Witness == vgPc = "done" /\ vgUsersVersion = Devel /\ vgResult = "false"

\* the version command succeeded with an output that is not two lines
VGNotTwoLines ==
    /\ vgPc # "awaitVersion"
    /\ vgRanVersion
    /\ vgExec.ok
    /\ Len(vgExec.lines) # 2

\* C10 as stated: an output of one line, or of more than two, makes
\* shouldUpdateLanguageServer return false.
C10_Original == VGNotTwoLines => (vgPc = "done" /\ vgResult = "false")

\* C10 amended: an output of one line, or of more than two, leaves the version
\* undetermined and shouldUpdateLanguageServer returns true (it recommends
\* the update) without asking the registry.
C10_NotTwoLinesRecommendsUpdate ==
    VGNotTwoLines =>
        /\ vgUsersVersion = NoVersion
        /\ vgPc = "done"
        /\ vgResult = "true"
        /\ ~vgFetched

C10_Witness == VGNotTwoLines /\ Len(vgExec.lines) > 2 /\ vgResult = "true"

(***************************************************************************)
(* goLint.  runTool starts the tool with the token it is given and kills   *)
(* the tool's process when that token is cancelled; a listener put on a    *)
(* token that is cancelled already is called at once.                      *)
(***************************************************************************)
\* runTool's onCancellationRequested listeners: every process in flight is killed
KillInFlight(runs) ==
    [i \in 1..Len(runs) |->
        IF runs[i].state = "running" THEN [runs[i] EXCEPT !.killed = TRUE] ELSE runs[i]]

\* runTool(..., token): the run a call starts
runTool(foundRunning, overlaps, cancelled) ==
    [state |-> "running", foundRunning |-> foundRunning, overlaps |-> overlaps,
     cancelledAtLaunch |-> cancelled, killed |-> cancelled, result |-> "none"]

\* what a tool run that ends gives: the linter's output, or that of a killed process
ToolOutput(run) == IF run.killed THEN "killed" ELSE "real"

\* line 75 under its guard: tokenSource.cancel()
CancelIfRunning(isRunning, cancelled) == IF isRunning THEN TRUE ELSE cancelled

InFlight == {i \in 1..Len(lintRuns) : lintRuns[i].state = "running"}

\* lines 74-93: a call of goLint
GoLint ==
    /\ Len(lintRuns) < MaxLints
    /\ tokenCancelled' = CancelIfRunning(running, tokenCancelled)
    /\ running' = TRUE
    /\ lintRuns' =
         Append(IF tokenCancelled' /\ ~tokenCancelled THEN KillInFlight(lintRuns) ELSE lintRuns,
                runTool(running, InFlight # {}, tokenCancelled'))
    /\ UNCHANGED applied
    /\ UNCHANGED <<vgVars, instVars, promptVars, pathVars, checkVars, renameVars, formatVars, lsVars>>

\* lines 88-91 and 26: the tool run of call i ends and runTool resolves; the
\* caller hands the result to handleDiagnosticErrors
LintResolves(i) ==
    /\ i \in InFlight
    /\ lintRuns' = [lintRuns EXCEPT ![i].state = "resolved", ![i].result = ToolOutput(lintRuns[i])]
    /\ running' = FALSE
    /\ applied' = applied \cup {i}
    /\ UNCHANGED tokenCancelled
    /\ UNCHANGED <<vgVars, instVars, promptVars, pathVars, checkVars, renameVars, formatVars, lsVars>>

\* runTool rejects: the then of lines 88-91 is skipped, the caller's catch shows the error
LintRejects(i) ==
    /\ i \in InFlight
    /\ lintRuns' = [lintRuns EXCEPT ![i].state = "rejected"]
    /\ UNCHANGED <<running, tokenCancelled, applied>>
    /\ UNCHANGED <<vgVars, instVars, promptVars, pathVars, checkVars, renameVars, formatVars, lsVars>>

LintNext ==
    \/ GoLint
    \/ \E i \in 1..MaxLints : LintResolves(i)
    \/ \E i \in 1..MaxLints : LintRejects(i)

LintSpecInit == VGIdle /\ LintInit /\ InstInit /\ FormatIdle /\ RenameIdle /\ CheckIdle /\ PromptIdle /\ PathIdle /\ LSIdle

SpecLint == LintSpecInit /\ [][LintNext]_vars

\* C6: when goLint is called a second time while the first call's tool run is
\* outstanding, the first call's result is discarded (it is not applied to
\* the diagnostics) and the second call's result is delivered as the
\* linter's real output.
C6_Original ==
    \A i \in 1..Len(lintRuns) : \A j \in 1..Len(lintRuns) :
        (i = 1 /\ j = 2 /\ Len(lintRuns) = 2 /\ lintRuns[j].overlaps
            /\ lintRuns[i].state = "resolved" /\ lintRuns[j].state = "resolved")
        => (i \notin applied /\ j \in applied /\ lintRuns[j].result = "real")

(***************************************************************************)
(* installTools: the tools are installed one after the other, each step of *)
(* the reduce chain adding one entry to the array: null, or the reason of  *)
(* the failure.                                                            *)
(***************************************************************************)
InstallableTools == {"gocode", "gocode-gomod", "gopkgs", "gometalinter", "golint", "gopls"}

\* goTools.isGocode
isGocode(tool) == tool \in {"gocode", "gocode-gomod"}

\* goTools.modulesOnly: the module-aware variant of another tool
modulesOnly(tool) == tool = "gocode-gomod"

\* the lists without repetition of at most n tools
RECURSIVE ToolLists(_)
ToolLists(n) ==
    IF n = 0 THEN {<<>>}
    ELSE LET shorter == ToolLists(n - 1)
         IN shorter \cup
            {Append(l, t) : l \in {k \in shorter : Len(k) = n - 1},
                            t \in InstallableTools}

NoRepetition(l) == \A i, j \in 1..Len(l) : i # j => l[i] # l[j]

\* what the child processes of one tool's installation do
InstallOutcomes ==
    [binPresent : BOOLEAN,   \* getBinPath(tool.name) is an absolute path
     closeFails : BOOLEAN,   \* "gocode close" says: rpc: can't find service Server.
     layout : BOOLEAN,       \* "go get" says: unexpected directory layout
     getErr : BOOLEAN,       \* "go get" ends with an error
     retryErr : BOOLEAN,     \* the retried "go get" ends with an error
     buildErr : BOOLEAN,     \* "go build" ends with an error
     linterErr : BOOLEAN]    \* "gometalinter --install" ends with an error

\* lines 146-164: whether the installation is given up because gocode cannot be closed
Aborted(tool, o) == o.binPresent /\ isGocode(tool) /\ o.closeFails

\* lines 170-180: the error the callback of lines 120-144 is called with
CallbackErr(tool, o) ==
    IF o.layout THEN o.retryErr
    ELSE IF ~o.getErr /\ modulesOnly(tool) THEN o.buildErr
    ELSE o.getErr

SucceededEntry == "null"
FailedEntry == "failure"

\* lines 160-163: an installation that is given up resolves with null
AbortedEntry == SucceededEntry

\* lines 120-144: the entry the callback resolves with
CallbackEntry(tool, o) ==
    IF CallbackErr(tool, o) THEN FailedEntry
    ELSE IF tool = "gometalinter" /\ o.linterErr THEN FailedEntry
    ELSE SucceededEntry

\* lines 119-182: the entry one tool adds to the array
Entry(tool, o) == IF Aborted(tool, o) THEN AbortedEntry ELSE CallbackEntry(tool, o)

\* whether the tool's binary is there in the end: "go get" built it, or, for a
\* module-aware tool, "go get -d" fetched it and "go build" built it
Built(tool, o) ==
    /\ ~Aborted(tool, o)
    /\ IF o.layout THEN ~o.retryErr /\ ~modulesOnly(tool)
       ELSE ~o.getErr /\ (modulesOnly(tool) => ~o.buildErr)
    /\ (tool = "gometalinter" => ~o.linterErr)

\* lines 59-116: a call of installTools; without the go binary or a GOPATH it
\* returns at once
InstallTools ==
    /\ instPc = "idle"
    /\ \E missing \in ToolLists(MaxTools), goFound \in BOOLEAN, gopathSet \in BOOLEAN :
        /\ NoRepetition(missing)
        /\ instMissing' = missing
        /\ instPc' = IF goFound /\ gopathSet THEN "installing" ELSE "returned"
    /\ UNCHANGED <<instRes, instRan, instInstalled, instReport>>
    /\ UNCHANGED <<vgVars, lintVars, promptVars, pathVars, checkVars, renameVars, formatVars, lsVars>>

\* lines 118-182: one step of the reduce chain
InstallOne ==
    /\ instPc = "installing"
    /\ Len(instRes) < Len(instMissing)
    /\ LET tool == instMissing[Len(instRes) + 1]
       IN \E o \in InstallOutcomes :
            /\ instRes' = Append(instRes, Entry(tool, o))
            /\ instRan' = Append(instRan, ~Aborted(tool, o))
            /\ instInstalled' = Append(instInstalled, Built(tool, o))
    /\ UNCHANGED <<instPc, instMissing, instReport>>
    /\ UNCHANGED <<vgVars, lintVars, promptVars, pathVars, checkVars, renameVars, formatVars, lsVars>>

\* line 185
Failures(res) == {i \in 1..Len(res) : res[i] # SucceededEntry}

\* lines 183-200: the report
InstallReport ==
    /\ instPc = "installing"
    /\ Len(instRes) = Len(instMissing)
    /\ instReport' = IF Failures(instRes) = {} THEN "all installed" ELSE "some failed"
    /\ instPc' = "resolved"
    /\ UNCHANGED <<instMissing, instRes, instRan, instInstalled>>
    /\ UNCHANGED <<vgVars, lintVars, promptVars, pathVars, checkVars, renameVars, formatVars, lsVars>>

InstNext == InstallTools \/ InstallOne \/ InstallReport

InstSpecInit == VGIdle /\ LintInit /\ InstInit /\ FormatIdle /\ RenameIdle /\ CheckIdle /\ PromptIdle /\ PathIdle /\ LSIdle

SpecInstall == InstSpecInit /\ [][InstNext]_vars

\* C7: for any list of tools and any subset of them whose install fails,
\* every tool of the list is attempted, the promise resolves, the result has
\* one entry per tool, and the failures reported are exactly the tools whose
\* install failed.
C7_Original ==
    instPc = "resolved" =>
        /\ Len(instRes) = Len(instMissing)
        /\ \A i \in 1..Len(instMissing) : instRan[i]
        /\ Failures(instRes) = {i \in 1..Len(instMissing) : ~instInstalled[i]}

(***************************************************************************)
(* registerLanguageFeatures and the language client.                       *)
(***************************************************************************)
\* parseLanguageServerConfig
parseLanguageServerConfig(goConf) ==
    [parsed |-> TRUE, enabled |-> goConf.useLanguageServer, features |-> goConf.features]

\* handlers that answer null whatever the feature
NoOpValueAlwaysNull(f) == "null"

\* the value a middleware handler returns without calling next
NoOpValue(f) ==
    IF f \in {"format", "completion", "references", "documentSymbols", "workspaceSymbols"}
    THEN "empty"
    ELSE "null"

\* a middleware whose hover handler calls next whatever the toggle
MiddlewareHoverForwards(f, cfg) ==
    IF f # "hover" /\ ~cfg.features[f] THEN NoOpValue(f) ELSE "next"

\* lines 104-183: the middleware handler of feature f, under the snapshot cfg
Middleware(f, cfg) == IF ~cfg.features[f] THEN NoOpValue(f) ELSE "next"

\* a registration pass that registers every fallback
NeedsFallbackAlways(f, cfg, caps) == TRUE

\* a registration pass that looks at the toggles alone
NeedsFallbackToggleOnly(f, cfg, caps) == ~cfg.features[f]

\* lines 195-239: the condition under which the fallback of f is registered
NeedsFallback(f, cfg, caps) == ~cfg.features[f] \/ f \notin caps

\* lines 193-239: the registrations of the then of onReady
RegisterFallbacks(fb, cfg, caps) ==
    [f \in Features |->
        IF f \in UsualFeatures /\ NeedsFallback(f, cfg, caps) THEN fb[f] + 1 ELSE fb[f]]

\* lines 380-393: registerUsualProviders
registerUsualProviders(fb) ==
    [f \in Features |-> IF f \in UsualFeatures THEN fb[f] + 1 ELSE fb[f]]

\* what getToolFromToolPath(getLanguageServerToolPath()) gives: a server, or
\* nothing when no server is found
ServerTools == {"gopls", "go-langserver", "none"}

\* the outcomes of "gopls version" and of the registry that activation meets
ActivationExecs ==
    <<[ok |-> TRUE, lines |-> <<InfoLine, << <<ModulePath, Devel>>, <<CheckSum>> >> >>],
      [ok |-> FALSE, lines |-> <<>>],
      [ok |-> TRUE, lines |-> <<InfoLine,
        << <<ModulePath, [kind |-> "semver", major |-> 0, minor |-> 1, patch |-> 0, pre |-> FALSE]>>,
           <<CheckSum>> >> >>]>>

ActivationRegistry ==
    {FetchFailed,
     [ok |-> TRUE, list |-> <<[kind |-> "semver", major |-> 0, minor |-> 1, patch |-> 0, pre |-> FALSE]>>],
     [ok |-> TRUE, list |-> <<[kind |-> "semver", major |-> 0, minor |-> 1, patch |-> 1, pre |-> FALSE]>>]}

\* a continuation of the restart command waits to run: it runs before any
\* other event is handled
ResumePending == \E i \in 1..Len(restarts) : restarts[i].pc = "ready"

\* an activation that subscribes parseLiveFile whatever the server
UsesLiveDiagnosticsAlways(tool, cfg) == TRUE

\* line 254: whether parseLiveFile is subscribed to the document changes
UsesLiveDiagnostics(tool, cfg) == ~(tool = "gopls" /\ cfg.features["diagnostics"])

\* lines 63-82: registerLanguageFeatures up to its await
RegisterLanguageFeatures(t) ==
    /\ lsPc = "start"
    /\ config' = parseLanguageServerConfig(goConfig)
    /\ IF ~goConfig.useLanguageServer
       THEN /\ fallback' = registerUsualProviders(fallback)
            /\ liveDiagnostics' = liveDiagnostics + 1
            /\ lsPc' = "done"
            /\ UNCHANGED toolName
       ELSE /\ toolName' = t
            /\ lsPc' = IF t = "none" THEN "rejected" ELSE "awaitUpdate"
            /\ UNCHANGED <<fallback, liveDiagnostics>>
    /\ UNCHANGED <<goConfig, updatePrompted, clientState, stopPending, initializeResult,
                   onReadyPending, capabilities, errorShown, disposables, restarts,
                   lastRequest, reloadPrompt>>
    /\ UNCHANGED <<vgVars, lintVars, instVars, promptVars, pathVars, checkVars, renameVars, formatVars>>

\* lines 82-257: registerLanguageFeatures after its await
RegisterContinues(exec, data) ==
    /\ lsPc = "awaitUpdate"
    /\ LET update == shouldUpdateLanguageServer(toolName, exec, data)
        IN IF update = "reject"
           THEN /\ lsPc' = "rejected"
                /\ UNCHANGED <<updatePrompted, clientState, onReadyPending, disposables,
                               liveDiagnostics>>
           ELSE /\ lsPc' = "done"
                /\ updatePrompted' = (update = "true")
                /\ onReadyPending' = TRUE
                /\ clientState' = "starting"
                /\ disposables' = <<FALSE>>
                /\ liveDiagnostics' =
                     IF UsesLiveDiagnostics(toolName, config)
                     THEN liveDiagnostics + 1 ELSE liveDiagnostics
    /\ UNCHANGED <<goConfig, config, toolName, stopPending, initializeResult, capabilities,
                   errorShown, fallback, restarts, lastRequest, reloadPrompt>>
    /\ UNCHANGED <<vgVars, lintVars, instVars, promptVars, pathVars, checkVars, renameVars, formatVars>>

\* the server answers initialize; the first time, the then of lines 187-240 runs
ServerReady(ir) ==
    /\ lsPc = "done"
    /\ clientState = "starting"
    /\ ~stopPending
    /\ ~ResumePending
    /\ initializeResult' = ir
    /\ IF onReadyPending
       THEN /\ capabilities' = [read |-> TRUE, has |-> ir.has, caps |-> ir.caps]
            /\ errorShown' = ~ir.has
            /\ fallback' = IF ir.has THEN RegisterFallbacks(fallback, config, ir.caps)
                            ELSE fallback
       ELSE UNCHANGED <<capabilities, errorShown, fallback>>
    /\ clientState' = "running"
    /\ onReadyPending' = FALSE
    /\ UNCHANGED <<goConfig, config, lsPc, toolName, updatePrompted, stopPending,
                   liveDiagnostics, disposables, restarts, lastRequest, reloadPrompt>>
    /\ UNCHANGED <<vgVars, lintVars, instVars, promptVars, pathVars, checkVars, renameVars, formatVars>>

\* the client calls the middleware handler of a feature the server provides
\* (for diagnostics: the server publishes diagnostics)
HandleRequest(f) ==
    /\ lsPc = "done"
    /\ clientState = "running"
    /\ ~ResumePending
    /\ initializeResult.has
    /\ f \in initializeResult.caps \cup {"diagnostics"}
    /\ lastRequest' = [feature |-> f, outcome |-> Middleware(f, config)]
    /\ UNCHANGED <<goConfig, config, lsPc, toolName, updatePrompted, clientState, stopPending,
                   initializeResult, onReadyPending, capabilities, errorShown, fallback,
                   liveDiagnostics, disposables, restarts, reloadPrompt>>
    /\ UNCHANGED <<vgVars, lintVars, instVars, promptVars, pathVars, checkVars, renameVars, formatVars>>

\* lines 245-246: the restart command is invoked and calls c.stop()
RestartInvoke ==
    /\ lsPc = "done"
    /\ config.enabled
    /\ ~ResumePending
    /\ Len(restarts) < MaxRestarts
    /\ restarts' = Append(restarts,
         [pc |-> IF clientState = "stopped" THEN "ready" ELSE "awaitStop",
          overlapped |-> \E i \in 1..Len(restarts) : restarts[i].pc = "awaitStop",
          started |-> FALSE])
    /\ clientState' = IF clientState = "stopped" THEN "stopped" ELSE "stopping"
    /\ stopPending' = (clientState # "stopped")
    /\ initializeResult' = NoInitializeResult
    /\ UNCHANGED <<goConfig, config, lsPc, toolName, updatePrompted, onReadyPending,
                   capabilities, errorShown, fallback, liveDiagnostics, disposables,
                   lastRequest, reloadPrompt>>
    /\ UNCHANGED <<vgVars, lintVars, instVars, promptVars, pathVars, checkVars, renameVars, formatVars>>

\* the server has shut down: the promise of c.stop() resolves
StopCompletes ==
    /\ stopPending
    /\ ~ResumePending
    /\ stopPending' = FALSE
    /\ clientState' = "stopped"
    /\ restarts' = [i \in 1..Len(restarts) |->
         IF restarts[i].pc = "awaitStop" THEN [restarts[i] EXCEPT !.pc = "ready"] ELSE restarts[i]]
    /\ UNCHANGED <<goConfig, config, lsPc, toolName, updatePrompted, initializeResult,
                   onReadyPending, capabilities, errorShown, fallback, liveDiagnostics,
                   disposables, lastRequest, reloadPrompt>>
    /\ UNCHANGED <<vgVars, lintVars, instVars, promptVars, pathVars, checkVars, renameVars, formatVars>>

\* the invocation whose continuation runs next: the one that has waited longest
NextToResume == CHOOSE i \in 1..Len(restarts) :
    restarts[i].pc = "ready" /\ \A j \in 1..(i - 1) : restarts[j].pc # "ready"

\* Disposable.dispose of what c.start() returned: it stops a client that is
\* starting or running
NeedsStop == clientState \in {"starting", "running"}

\* lines 247-249: dispose the old handle, start again, keep the new handle
RestartResumes ==
    /\ ResumePending
    /\ restarts' = [restarts EXCEPT ![NextToResume].pc = "done", ![NextToResume].started = TRUE]
    /\ disposables' = Append([disposables EXCEPT ![Len(disposables)] = TRUE], FALSE)
    /\ stopPending' = (stopPending \/ NeedsStop)
    /\ initializeResult' = NoInitializeResult
    /\ clientState' = "starting"
    /\ UNCHANGED <<goConfig, config, lsPc, toolName, updatePrompted, onReadyPending,
                   capabilities, errorShown, fallback, liveDiagnostics, lastRequest,
                   reloadPrompt>>
    /\ UNCHANGED <<vgVars, lintVars, instVars, promptVars, pathVars, checkVars, renameVars, formatVars>>

ConfigKeys == {"useLanguageServer", "languageServerFlags", "languageServerExperimentalFeatures", "other"}

\* a watcher that asks for a reload only when go.useLanguageServer changes
ReloadMessageUseLanguageServerOnly(e, conf) ==
    IF "useLanguageServer" \in e
    THEN (IF conf.enabled THEN "enable" ELSE "disable")
    ELSE "none"

\* lines 259-282: the message watchLanguageServerConfiguration decides on
ReloadMessage(e, conf) ==
    IF e = {} THEN "none"
    ELSE IF "languageServerFlags" \in e \/ "languageServerExperimentalFeatures" \in e
    THEN "settings"
    ELSE IF "useLanguageServer" \in e
    THEN (IF conf.enabled THEN "enable" ELSE "disable")
    ELSE "none"

\* the user changes the settings under the keys e; lines 65 and 259-289 handle the event
ConfigChange(e, new) ==
    /\ lsPc # "start"
    /\ ~ResumePending
    /\ new.useLanguageServer = (IF "useLanguageServer" \in e THEN ~goConfig.useLanguageServer
                                ELSE goConfig.useLanguageServer)
    /\ IF "languageServerExperimentalFeatures" \in e
       THEN new.features # goConfig.features
       ELSE new.features = goConfig.features
    /\ goConfig' = new
    /\ reloadPrompt' = ReloadMessage(e, parseLanguageServerConfig(new))
    /\ UNCHANGED <<config, lsPc, toolName, updatePrompted, clientState, stopPending,
                   initializeResult, onReadyPending, capabilities, errorShown, fallback,
                   liveDiagnostics, disposables, restarts, lastRequest>>
    /\ UNCHANGED <<vgVars, lintVars, instVars, promptVars, pathVars, checkVars, renameVars, formatVars>>

LSSpecInit == VGIdle /\ LintInit /\ InstInit /\ FormatIdle /\ RenameIdle /\ CheckIdle /\ PromptIdle /\ PathIdle /\ LSInit /\ goConfig \in Configs

\* activation, negotiation, restarts and configuration changes, under servers
\* of every capability set
LSNext ==
    \/ \E t \in ServerTools : RegisterLanguageFeatures(t)
    \/ \E exec \in {ActivationExecs[i] : i \in 1..Len(ActivationExecs)}, data \in ActivationRegistry : RegisterContinues(exec, data)
    \/ \E ir \in InitializeResults : ServerReady(ir)
    \/ RestartInvoke
    \/ StopCompletes
    \/ RestartResumes
    \/ \E e \in SUBSET ConfigKeys, new \in Configs : ConfigChange(e, new)

SpecLS == LSSpecInit /\ [][LSNext]_vars

\* the middleware at work: requests to a gopls that states every capability
MiddlewareNext ==
    \/ RegisterLanguageFeatures("gopls")
    \/ RegisterContinues(ActivationExecs[1], FetchFailed)
    \/ ServerReady(FullCapabilities)
    \/ \E f \in Features : HandleRequest(f)
    \/ RestartInvoke
    \/ StopCompletes
    \/ RestartResumes
    \/ \E e \in SUBSET ConfigKeys, new \in Configs : ConfigChange(e, new)

MiddlewareSpecInit == LSSpecInit

SpecMiddleware == MiddlewareSpecInit /\ [][MiddlewareNext]_vars

(***************************************************************************)
(* Claims about the middleware and the negotiation.                        *)
(***************************************************************************)
\* C1: for every feature whose toggle is off in the configuration snapshot,
\* the middleware handler returns without calling next: no request for the
\* feature (and no diagnostics notification) is forwarded, in any server
\* state and after any number of restarts.
C1_DisabledNeverForwarded ==
    \A f \in Features :
        (config.parsed /\ ~config.features[f] /\ lastRequest.feature = f)
            => lastRequest.outcome # "next"

\* a hover request is answered without next after a restart, the toggle being off
C1_Witness ==
    /\ lastRequest = [feature |-> "hover", outcome |-> "null"]
    /\ ~config.features["hover"]
    /\ config.features["completion"]
    /\ Len(restarts) >= 1
    /\ restarts[1].pc = "done"
    /\ clientState = "running"

\* the then of onReady has read a capability set and made its registrations
NegotiationCompleted == capabilities.read /\ capabilities.has

\* C2: once the server has reported ready, no fallback provider is registered
\* for a feature that is enabled in the configuration and present in the
\* capabilities the server stated, and none is registered later, whatever
\* restarts and configuration changes follow.
C2_NoFallbackForServedFeature ==
    NegotiationCompleted =>
        \A f \in Features :
            (config.features[f] /\ f \in capabilities.caps) => fallback[f] = 0

\* after a restart and a configuration change, completion is served by the
\* server alone and hover by its fallback
C2_Witness ==
    /\ NegotiationCompleted
    /\ config.features["completion"]
    /\ "completion" \in capabilities.caps
    /\ fallback["completion"] = 0
    /\ fallback["hover"] = 1
    /\ Len(restarts) >= 1
    /\ restarts[1].pc = "done"
    /\ clientState = "running"
    /\ goConfig.features # config.features

\* the fallback of a feature: its provider, or for diagnostics the
\* subscription of parseLiveFile
FallbackHandles(f) == IF f = "diagnostics" THEN liveDiagnostics ELSE fallback[f]

\* feature f is enabled but absent from the capabilities, or the server is disabled
NeedsFallbackByClaim(f) ==
    \/ (lsPc = "done" /\ ~config.enabled)
    \/ (NegotiationCompleted /\ config.features[f] /\ f \notin capabilities.caps)

ForwardedToServer(f) ==
    /\ config.enabled
    /\ config.features[f]
    /\ \/ clientState = "starting"
       \/ /\ clientState = "running"
          /\ initializeResult.has
          /\ f \in initializeResult.caps \cup {"diagnostics"}

\* C4: in every reachable state and for every feature exactly one answering
\* path is active: the server or a fallback provider, never both and never
\* neither.
C4_Original ==
    lsPc \in {"done", "rejected"} =>
        \A f \in Features :
            \/ (ForwardedToServer(f) /\ FallbackHandles(f) = 0)
            \/ (~ForwardedToServer(f) /\ FallbackHandles(f) = 1)

\* the handles c.start() returned that are not disposed
Undisposed == {d \in 1..Len(disposables) : ~disposables[d]}

\* C5: when the restart command is invoked while an earlier invocation still
\* awaits c.stop(), c.start() is called once for the pair, and after both
\* have resolved exactly one undisposed server handle exists.
C5_Original ==
    \A j \in 2..Len(restarts) :
        (restarts[j].overlapped /\ restarts[j - 1].pc = "done" /\ restarts[j].pc = "done")
            => /\ Cardinality({k \in {j - 1, j} : restarts[k].started}) = 1
               /\ Cardinality(Undisposed) = 1

\* C11: for every tool other than gopls, shouldUpdateLanguageServer returns
\* false without running the version command of the tool and without fetching
\* the registry.
C11_OtherToolsNeverUpdate ==
    vgTool # "gopls" =>
        /\ ~vgRanVersion
        /\ ~vgFetched
        /\ vgPc \in {"start", "done"}
        /\ vgPc = "done" => vgResult = "false"

\* the call for go-langserver has returned false
C11_Witness ==
    /\ vgTool = "go-langserver"
    /\ vgPc = "done"
    /\ vgResult = "false"
    /\ ~vgRanVersion

(***************************************************************************)
(* promptForMissingTool (goInstallTools.ts): each call is a chain of three *)
(* continuations, of getGoVersion, of getMissingTools and of the message   *)
(* the user answers.                                                       *)
(***************************************************************************)
\* the tools the prompt is asked for
PromptTools == {"golint", "gocode-gomod"}

\* the tools getMissingTools may find missing
CheckedTools == {"golint", "gocode-gomod", "gopkgs"}

\* goTools: Tool.isImportant
isImportant(tool) == tool \in {"gocode-gomod", "gopkgs"}

\* lines 214-221: the tools that are not offered with a go older than 1.9
OutdatedTools == {"golint", "gotests"}

\* line 228: missing.filter(x => x === tool || tool.isImportant)
FilterMissing(missing, tool) == IF isImportant(tool) THEN missing ELSE missing \cap {tool}

\* lines 224-232: the buttons of the message
InstallOptions(missing, tool) ==
    IF Cardinality(FilterMissing(missing, tool)) > 1 /\ modulesOnly(tool)
    THEN {"Install", "Install All"}
    ELSE {"Install"}

\* what the user does with the message: a button, or dismissing it
Dismissed == "undefined"

\* lines 203-210: the synchronous part of a call, which returns at once for
\* a declined tool and else asks for the go version
NewPromptCall(tool) ==
    [tool |-> tool,
     pc |-> IF tool \in declinedInstalls THEN "returned" ELSE "awaitGoVersion",
     missing |-> {},
     options |-> {},
     selected |-> Dismissed]

\* promptForMissingTool is called for a tool
PromptForMissingTool(tool) ==
    /\ Len(promptCalls) < MaxPrompts
    /\ promptCalls' = Append(promptCalls, NewPromptCall(tool))
    /\ UNCHANGED <<declinedInstalls, installBatches>>
    /\ UNCHANGED <<vgVars, lintVars, instVars, pathVars, checkVars, renameVars, formatVars, lsVars>>

\* lines 210-224: the go version is known
GoVersionResolves(i, lessThan9) ==
    /\ promptCalls[i].pc = "awaitGoVersion"
    /\ promptCalls' = [promptCalls EXCEPT ![i].pc =
         IF lessThan9 /\ promptCalls[i].tool \in OutdatedTools
         THEN "outdated" ELSE "awaitMissing"]
    /\ UNCHANGED <<declinedInstalls, installBatches>>
    /\ UNCHANGED <<vgVars, lintVars, instVars, pathVars, checkVars, renameVars, formatVars, lsVars>>

\* lines 224-237: the missing tools are known; the message is shown when the
\* tool is among them
MissingResolves(i, missing) ==
    /\ promptCalls[i].pc = "awaitMissing"
    /\ promptCalls' = [promptCalls EXCEPT ![i] =
         IF promptCalls[i].tool \notin missing
         THEN [@ EXCEPT !.pc = "notMissing"]
         ELSE [@ EXCEPT !.pc = "shown",
                        !.missing = FilterMissing(missing, promptCalls[i].tool),
                        !.options = InstallOptions(missing, promptCalls[i].tool)]]
    /\ UNCHANGED <<declinedInstalls, installBatches>>
    /\ UNCHANGED <<vgVars, lintVars, instVars, pathVars, checkVars, renameVars, formatVars, lsVars>>

\* lines 241-245: the list the case 'Install' gives installTools
InstallList(tool) == IF tool = "gocode-gomod" THEN {tool, "gopkgs"} ELSE {tool}

\* lines 238-252: the switch, whose cases have no break: a case runs the
\* cases below it too
BatchesStarted(call, selected) ==
    IF selected = "Install" THEN <<InstallList(call.tool), call.missing>>
    ELSE IF selected = "Install All" THEN <<call.missing>>
    ELSE <<>>

\* lines 237-253: the user answers the message
PromptAnswered(i, selected) ==
    /\ promptCalls[i].pc = "shown"
    /\ selected \in promptCalls[i].options \cup {Dismissed}
    /\ promptCalls' = [promptCalls EXCEPT ![i].pc = "answered", ![i].selected = selected]
    /\ installBatches' = installBatches \o BatchesStarted(promptCalls[i], selected)
    /\ declinedInstalls' = declinedInstalls \cup {promptCalls[i].tool}
    /\ UNCHANGED <<vgVars, lintVars, instVars, pathVars, checkVars, renameVars, formatVars, lsVars>>

PromptNext ==
    \/ \E tool \in PromptTools : PromptForMissingTool(tool)
    \/ \E i \in 1..Len(promptCalls), lessThan9 \in BOOLEAN : GoVersionResolves(i, lessThan9)
    \/ \E i \in 1..Len(promptCalls), missing \in SUBSET CheckedTools : MissingResolves(i, missing)
    \/ \E i \in 1..Len(promptCalls), selected \in {"Install", "Install All", Dismissed} :
          PromptAnswered(i, selected)

PromptSpecInit == VGIdle /\ LintInit /\ InstInit /\ FormatIdle /\ RenameIdle /\ CheckIdle /\ PromptIdle /\ PathIdle /\ LSIdle

SpecPrompt == PromptSpecInit /\ [][PromptNext]_vars

\* the calls for a tool whose message was shown
PromptsShown(tool) ==
    {i \in 1..Len(promptCalls) :
        promptCalls[i].tool = tool /\ promptCalls[i].pc \in {"shown", "answered"}}

\* C12: within one session the install prompt of a tool is shown at most
\* once, for any sequence and interleaving of promptForMissingTool calls for
\* the tool, calls made while an earlier prompt is unanswered included.
C12_Original == \A tool \in PromptTools : Cardinality(PromptsShown(tool)) <= 1

\* the server is enabled and not available: no server binary was found, or
\* the client was started and the server has not reported ready (a server
\* that never reports ready stays in this state)
ServerUnavailable ==
    /\ config.enabled
    /\ \/ (lsPc = "rejected" /\ toolName = "none")
       \/ (lsPc = "done" /\ onReadyPending)

\* C13: when the language server is enabled but unavailable, fallback
\* providers are registered all the same, so that every feature keeps being
\* answered.
C13_Original ==
    ServerUnavailable => \A f \in UsualFeatures : fallback[f] >= 1

\* the features whose provider answers with a list, and those whose
\* provider answers with one value
ListValued ==
    {"format", "completion", "references", "documentSymbols", "workspaceSymbols", "documentLink"}

SingleValued ==
    {"rename", "definition", "typeDefinition", "hover", "signatureHelp", "implementation"}

\* the last middleware call was for f, whose toggle is off
AnsweredToggledOff(f) == config.parsed /\ ~config.features[f] /\ lastRequest.feature = f

\* C14 as stated: with its toggle off, every list-valued feature, document
\* links included, is answered with an empty sequence and every single-valued
\* feature with null.
C14_Original ==
    /\ \A f \in ListValued : AnsweredToggledOff(f) => lastRequest.outcome = "empty"
    /\ \A f \in SingleValued : AnsweredToggledOff(f) => lastRequest.outcome = "null"

\* C14 amended: with its toggle off, formatting, completion, references,
\* document symbols and workspace symbols are answered with an empty sequence;
\* document links and every single-valued feature are answered with null.
C14_EmptyOrNullByFeature ==
    /\ \A f \in ListValued \ {"documentLink"} :
          AnsweredToggledOff(f) => lastRequest.outcome = "empty"
    /\ \A f \in SingleValued \cup {"documentLink"} :
          AnsweredToggledOff(f) => lastRequest.outcome = "null"

\* a completion request is answered with an empty sequence, the toggle being off
C14_Witness ==
    /\ AnsweredToggledOff("completion")
    /\ lastRequest.outcome = "empty"
    /\ clientState = "running"

(***************************************************************************)
(* getLanguageServerToolPath: the choice of the server binary.             *)
(***************************************************************************)
\* the tool names getToolFromToolPath can give for a path of alternateTools
AlternateNames == {NoAlternate, "gopls", "go-langserver", "other"}

ToolPathEnvs ==
    [useLanguageServer : BOOLEAN, sameGopath : BOOLEAN, goplsAbsolute : BOOLEAN,
     langserverAbsolute : BOOLEAN, goplsAlternate : AlternateNames,
     golangserverAlternate : AlternateNames]

\* lines 350-359: the server the user is taken to want
languageServerOfChoice(env) ==
    IF env.goplsAlternate # NoAlternate THEN env.goplsAlternate
    ELSE IF env.golangserverAlternate # NoAlternate THEN env.golangserverAlternate
    ELSE "gopls"

\* a lookup that tries go-langserver before gopls
getLanguageServerToolPathLangserverFirst(env) ==
    IF ~env.useLanguageServer
    THEN [path |-> "undefined", messages |-> {}, prompt |-> <<>>]
    ELSE IF ~env.sameGopath
    THEN [path |-> "undefined", messages |-> {"differentGopaths"}, prompt |-> <<>>]
    ELSE IF env.langserverAbsolute
    THEN [path |-> "go-langserver", messages |-> {}, prompt |-> <<>>]
    ELSE IF env.goplsAbsolute
    THEN [path |-> "gopls", messages |-> {}, prompt |-> <<>>]
    ELSE IF languageServerOfChoice(env) \notin {"gopls", "go-langserver"}
    THEN [path |-> "undefined", messages |-> {"cannotFind"}, prompt |-> <<>>]
    ELSE [path |-> "undefined", messages |-> {"reloadAfterInstalling"},
          prompt |-> <<languageServerOfChoice(env)>>]

\* lines 324-369: the path returned (named by the server it is the path of),
\* the messages shown and the tool promptForMissingTool is called for
getLanguageServerToolPath(env) ==
    IF ~env.useLanguageServer
    THEN [path |-> "undefined", messages |-> {}, prompt |-> <<>>]
    ELSE IF ~env.sameGopath
    THEN [path |-> "undefined", messages |-> {"differentGopaths"}, prompt |-> <<>>]
    ELSE IF env.goplsAbsolute
    THEN [path |-> "gopls", messages |-> {}, prompt |-> <<>>]
    ELSE IF env.langserverAbsolute
    THEN [path |-> "go-langserver", messages |-> {}, prompt |-> <<>>]
    ELSE IF languageServerOfChoice(env) \notin {"gopls", "go-langserver"}
    THEN [path |-> "undefined", messages |-> {"cannotFind"}, prompt |-> <<>>]
    ELSE [path |-> "undefined", messages |-> {"reloadAfterInstalling"},
          prompt |-> <<languageServerOfChoice(env)>>]

\* getLanguageServerToolPath is called and returns
ToolPathCall ==
    /\ tpPc = "start"
    /\ tpPc' = "done"
    /\ tpResult' = getLanguageServerToolPath(tpEnv).path
    /\ tpMessages' = getLanguageServerToolPath(tpEnv).messages
    /\ promptCalls' =
         IF getLanguageServerToolPath(tpEnv).prompt = <<>> THEN promptCalls
         ELSE Append(promptCalls, NewPromptCall(getLanguageServerToolPath(tpEnv).prompt[1]))
    /\ UNCHANGED <<tpEnv, declinedInstalls, installBatches>>
    /\ UNCHANGED <<vgVars, lintVars, instVars, checkVars, renameVars, formatVars, lsVars>>

ToolPathInit ==
    /\ VGIdle /\ LintInit /\ InstInit /\ FormatIdle /\ RenameIdle /\ CheckIdle /\ PromptIdle /\ LSIdle
    /\ tpPc = "start"
    /\ tpEnv \in ToolPathEnvs
    /\ tpResult = "pending"
    /\ tpMessages = {}

ToolPathNext == ToolPathCall

SpecToolPath == ToolPathInit /\ [][ToolPathNext]_vars

\* the lookup goes as far as looking for binaries
LooksForBinaries(env) == env.useLanguageServer /\ env.sameGopath

\* C15: getLanguageServerToolPath gives gopls precedence over go-langserver:
\* it returns the gopls path whenever gopls resolves to an absolute path, the
\* go-langserver path only when gopls does not and go-langserver does, and
\* nothing, without prompting to install, when go.useLanguageServer is off or
\* the workspace folders have different GOPATHs.
C15_GoplsPrecedence ==
    tpPc = "done" =>
        /\ (LooksForBinaries(tpEnv) /\ tpEnv.goplsAbsolute) => tpResult = "gopls"
        /\ tpResult = "go-langserver" <=>
              (LooksForBinaries(tpEnv) /\ ~tpEnv.goplsAbsolute /\ tpEnv.langserverAbsolute)
        /\ ~LooksForBinaries(tpEnv) => (tpResult = "undefined" /\ promptCalls = <<>>)

\* both servers are installed and the path of gopls is returned
C15_Witness ==
    /\ tpPc = "done"
    /\ LooksForBinaries(tpEnv)
    /\ tpEnv.goplsAbsolute
    /\ tpEnv.langserverAbsolute
    /\ tpResult = "gopls"

\* the then of onReady found no capabilities in the result of initialize
CapabilitiesAbsent == capabilities.read /\ ~capabilities.has

\* C16: when the server reaches ready with an absent capability set, an error
\* is shown to the user and every feature is left answered by its fallback
\* provider: a fallback provider is registered for each feature that has one.
C16_Original ==
    CapabilitiesAbsent => (errorShown /\ \A f \in UsualFeatures : fallback[f] = 1)

\* registerLanguageFeatures resumes for a gopls of a released version whose
\* registry fetch has failed
ResumesAfterFailedFetch == RegisterContinues(ActivationExecs[3], FetchFailed)

\* C17: when the registry fetch of shouldUpdateLanguageServer fails,
\* registerLanguageFeatures skips the update check and carries on: no update
\* prompt is shown, the language client is created and started and the
\* restart command is registered.
C17_Original ==
    [][(toolName = "gopls" /\ ResumesAfterFailedFetch)
          => (lsPc' = "done" /\ ~updatePrompted' /\ clientState' = "starting")]_vars

\* the first negotiation was made with a capability set, a restart has been
\* carried out and the restarted server has reported ready with a capability set
ReadyAfterRestart ==
    /\ \E i \in 1..Len(restarts) : restarts[i].pc = "done"
    /\ \A i \in 1..Len(restarts) : restarts[i].pc = "done"
    /\ clientState = "running"
    /\ NegotiationCompleted
    /\ initializeResult.has

\* C18: a restart redoes the negotiation: after any number of restarts each
\* feature has at most one fallback handle, and has one exactly when the
\* capabilities of the server now running call for it.
C18_Original ==
    ReadyAfterRestart =>
        \A f \in UsualFeatures :
            /\ fallback[f] <= 1
            /\ fallback[f] = 1 <=> NeedsFallback(f, config, initializeResult.caps)

\* call i signalled cancellation: line 75 ran, the flag being set at the call
CancelSignalled(i) == lintRuns[i].foundRunning

\* C19: a goLint call that finds a prior lint still running signals
\* cancellation before it launches its own tool process, and a call that
\* finds no lint running signals none.
C19_Original ==
    \A i \in 1..Len(lintRuns) : CancelSignalled(i) <=> lintRuns[i].overlaps

\* C20: every goLint call launches its tool run with a cancellation token
\* that is not cancelled at launch, whatever lint requests came before.
C20_Original ==
    \A i \in 1..Len(lintRuns) : ~lintRuns[i].cancelledAtLaunch

\* C21: the flag running is true exactly when at least one lint tool run is
\* in flight: it does not become false while a newer overlapping lint still
\* runs, and it is false again after a lint run has rejected.
C21_Original == running <=> (InFlight # {})

\* the middleware hands the diagnostics the server publishes on to the editor
ForwardsServerDiagnostics ==
    lsPc = "done" /\ config.enabled /\ config.features["diagnostics"]

\* parseLiveFile is subscribed to the changes of documents
LivePathActive == liveDiagnostics >= 1

\* C22 as stated: the live-diagnostics path and the forwarding of the
\* server's diagnostics are never both active, for gopls and go-langserver and
\* either value of the diagnostics toggle.
C22_Original == ~(LivePathActive /\ ForwardsServerDiagnostics)

\* C22 amended: with gopls the two are never both active, parseLiveFile being
\* subscribed exactly when the diagnostics toggle is off; with go-langserver
\* parseLiveFile is subscribed for either value of the toggle.
C22_ExclusiveForGopls ==
    (lsPc = "done" /\ config.enabled) =>
        /\ toolName = "gopls" => ~(LivePathActive /\ ForwardsServerDiagnostics)
        /\ toolName = "gopls" => (liveDiagnostics = 1 <=> ~config.features["diagnostics"])
        /\ toolName = "go-langserver" => liveDiagnostics = 1

\* gopls runs with the diagnostics toggle on and parseLiveFile is not subscribed
C22_Witness ==
    /\ lsPc = "done"
    /\ toolName = "gopls"
    /\ config.enabled
    /\ config.features["diagnostics"]
    /\ liveDiagnostics = 0
    /\ clientState = "running"

\* the keys whose change asks for a reload
ReloadKeys == {"useLanguageServer", "languageServerFlags", "languageServerExperimentalFeatures"}

\* the toggles the middleware consults and the providers registered stay as they are
ProvidersUntouched ==
    /\ config' = config
    /\ fallback' = fallback
    /\ liveDiagnostics' = liveDiagnostics
    /\ clientState' = clientState

\* the keys among useLanguageServer and languageServerExperimentalFeatures
\* whose value differs between this state and the next
KeysWithNewValue ==
    (IF goConfig'.useLanguageServer # goConfig.useLanguageServer
     THEN {"useLanguageServer"} ELSE {})
    \cup (IF goConfig'.features # goConfig.features
          THEN {"languageServerExperimentalFeatures"} ELSE {})

\* the events a step can be the handling of: they affect the keys whose
\* value differs and any of the keys whose value the model does not hold
EventsOfStep == {KeysWithNewValue \cup x : x \in SUBSET {"languageServerFlags", "other"}}

\* C23: a configuration change that affects go.useLanguageServer,
\* go.languageServerFlags or go.languageServerExperimentalFeatures shows a
\* reload prompt and changes neither the toggles the middleware consults nor
\* the registered providers; a change that affects none of them shows no prompt.
C23_ChangePromptsAndKeepsProviders ==
    [][\A e \in EventsOfStep :
          ConfigChange(e, goConfig') =>
              /\ ProvidersUntouched
              /\ (e \cap ReloadKeys # {}) => reloadPrompt' \in {"enable", "disable", "settings"}
              /\ (e \cap ReloadKeys = {}) => reloadPrompt' = "none"]_vars

\* the toggles were changed while the server runs: the reload prompt was
\* shown, the middleware still has the toggles of activation
C23_Witness ==
    /\ reloadPrompt = "settings"
    /\ goConfig.features # config.features
    /\ config.parsed
    /\ config.enabled
    /\ clientState = "running"
    /\ NegotiationCompleted

(***************************************************************************)
(* check (goCheck.ts): the enabled runs are started together and their     *)
(* promises are joined with Promise.all.                                   *)
(***************************************************************************)
\* Promise.all over the promises of the enabled runs: rejected as soon as
\* one is rejected, resolved once all are resolved
PromiseAll(runs, enabled) ==
    IF \E t \in enabled : runs[t] = "rejected" THEN "rejected"
    ELSE IF \A t \in enabled : runs[t] = "resolved" THEN "resolved"
    ELSE "pending"

\* line 152: the result sets of all the runs, concatenated
ResultsOf(runs, enabled) ==
    IF PromiseAll(runs, enabled) = "resolved" THEN enabled ELSE {}

\* the values of buildOnSave, lintOnSave and vetOnSave
OnSaveValues == {"off", "package", "workspace"}

\* lines 114, 133, 137: the runs the configuration enables
EnabledOnSave(cfg) == {t \in CheckTools : cfg[t] # "off"}

\* lines 78-153: check is called; without a go binary it resolves with no
\* results, else it starts the runs that are enabled
Check(goRuntimePath) ==
    /\ chkPc = "start"
    /\ chkPc' = "called"
    /\ chkEnabled' = IF goRuntimePath THEN EnabledOnSave(chkConfig) ELSE {}
    /\ chkRuns' = [t \in CheckTools |-> IF t \in chkEnabled' THEN "pending" ELSE "off"]
    /\ chkPromise' = PromiseAll(chkRuns', chkEnabled')
    /\ chkResults' = ResultsOf(chkRuns', chkEnabled')
    /\ UNCHANGED chkConfig
    /\ UNCHANGED <<vgVars, lintVars, instVars, promptVars, pathVars, renameVars, formatVars, lsVars>>

\* the promise of the run of tool t settles; the then of line 151 runs when
\* Promise.all settles
RunSettles(t, outcome) ==
    /\ chkRuns[t] = "pending"
    /\ chkRuns' = [chkRuns EXCEPT ![t] = outcome]
    /\ chkPromise' = PromiseAll(chkRuns', chkEnabled)
    /\ chkResults' = ResultsOf(chkRuns', chkEnabled)
    /\ UNCHANGED <<chkPc, chkConfig, chkEnabled>>
    /\ UNCHANGED <<vgVars, lintVars, instVars, promptVars, pathVars, renameVars, formatVars, lsVars>>

RunResolves(t) == RunSettles(t, "resolved")

RunRejects(t) == RunSettles(t, "rejected")

CheckInit ==
    /\ VGIdle /\ LintInit /\ InstInit /\ FormatIdle /\ RenameIdle /\ PromptIdle /\ PathIdle /\ LSIdle
    /\ chkPc = "start"
    /\ chkConfig \in [CheckTools -> OnSaveValues]
    /\ chkEnabled = {}
    /\ chkRuns = [t \in CheckTools |-> "off"]
    /\ chkPromise = "none"
    /\ chkResults = {}

CheckNext ==
    \/ \E goRuntimePath \in BOOLEAN : Check(goRuntimePath)
    \/ \E t \in CheckTools : RunResolves(t)
    \/ \E t \in CheckTools : RunRejects(t)

SpecCheck == CheckInit /\ [][CheckNext]_vars

\* the runs that have failed, and those that have given results
RejectedRuns == {t \in chkEnabled : chkRuns[t] = "rejected"}

ResolvedRuns == {t \in chkEnabled : chkRuns[t] = "resolved"}

\* C24: when one of the enabled build, lint and vet runs fails and the
\* others have ended, the promise check returned resolves with the results
\* of the others: it does not reject and it drops no result of a sibling.
C24_Original ==
    (Cardinality(RejectedRuns) = 1 /\ ResolvedRuns # {}
                                   /\ RejectedRuns \cup ResolvedRuns = chkEnabled)
        => (chkPromise = "resolved" /\ chkResults = ResolvedRuns)

\* the calls whose message the user has answered
Answered == {i \in 1..Len(promptCalls) : promptCalls[i].pc = "answered"}

\* C25: declinedInstalls contains only tools the user has declined: a tool is
\* added only when the user dismisses its prompt, and choosing Install or
\* Install All does not add it.
C25_Original ==
    \A tool \in declinedInstalls :
        \E i \in Answered : promptCalls[i].tool = tool /\ promptCalls[i].selected = Dismissed

\* C26: choosing Install starts exactly one installTools batch, of the
\* prompted tool alone (with gopkgs for gocode-gomod): the other missing tools
\* are not installed too and no second batch is started by the answer.
C26_Original ==
    \A i \in 1..Len(promptCalls) :
        (Answered = {i} /\ promptCalls[i].selected = "Install")
            => installBatches = <<InstallList(promptCalls[i].tool)>>

\* the tools of the list whose installation was given up before "go get"
GivenUp == {i \in 1..Len(instRan) : ~instRan[i]}

\* C27: installTools reports that all tools were installed only when every
\* requested tool was in fact installed: a gocode install that is given up
\* because the running gocode cannot be closed is counted among the failures.
C27_Original ==
    instPc = "resolved" =>
        /\ GivenUp \subseteq Failures(instRes)
        /\ instReport = "all installed" => \A i \in 1..Len(instMissing) : instInstalled[i]

(***************************************************************************)
(* goRename.ts: GoRenameProvider.  provideRenameEdits saves every file and *)
(* then runs gorename; requests are independent of one another.            *)
(***************************************************************************)
MaxRenames == 3

\* the err argument execFile hands to its callback
RenameErrors == {"none", "ENOENT", "other"}

\* lines 14-18: the promise of saveAll().then(...), pending until doRename's
\* promise settles
provideRenameEdits(gopathSet) ==
    /\ Len(renames) < MaxRenames
    /\ renames' = Append(renames,
            [pc |-> "saveAll", gopath |-> gopathSet, err |-> "none", promise |-> "pending"])
    /\ UNCHANGED renameInfoShown
    /\ UNCHANGED <<vgVars, lintVars, instVars, promptVars, pathVars, checkVars, formatVars, lsVars>>

\* lines 20-27: the executor of doRename's promise.  path.join throws a
\* TypeError on an undefined GOPATH, which rejects the promise; otherwise
\* gorename is started.
doRename(i) ==
    /\ renames[i].pc = "saveAll"
    /\ renames' = [renames EXCEPT ![i] =
            IF renames[i].gopath
            THEN [@ EXCEPT !.pc = "execFile"]
            ELSE [@ EXCEPT !.pc = "threw", !.promise = "rejected"]]
    /\ UNCHANGED renameInfoShown
    /\ UNCHANGED <<vgVars, lintVars, instVars, promptVars, pathVars, checkVars, formatVars, lsVars>>

\* lines 27-39: what the callback does to the promise for each err
SettledBy(err, promise) ==
    CASE err = "ENOENT" -> "resolved with null"
      [] err = "other" -> "rejected"
      [] OTHER -> promise

\* lines 27-39: the callback of execFile
ExecFileCallback(i, err) ==
    /\ renames[i].pc = "execFile"
    /\ renames' = [renames EXCEPT ![i] =
            [@ EXCEPT !.pc = "returned", !.err = err,
                      !.promise = SettledBy(err, renames[i].promise)]]
    /\ renameInfoShown' = IF err = "ENOENT" THEN renameInfoShown + 1 ELSE renameInfoShown
    /\ UNCHANGED <<vgVars, lintVars, instVars, promptVars, pathVars, checkVars, formatVars, lsVars>>

RenameInit ==
    /\ VGIdle /\ LintInit /\ InstInit /\ FormatIdle /\ CheckIdle /\ PromptIdle /\ PathIdle /\ LSIdle
    /\ renames = <<>>
    /\ renameInfoShown = 0

RenameNext ==
    \/ \E g \in BOOLEAN : provideRenameEdits(g)
    \/ \E i \in 1..Len(renames) : doRename(i)
    \/ \E i \in 1..Len(renames), err \in RenameErrors : ExecFileCallback(i, err)

SpecRename == RenameInit /\ [][RenameNext]_vars

\* C28: once the callback of execFile has run, the promise of the request is
\* settled for every outcome of gorename: resolved when gorename exited
\* without error, resolved with null when the binary is missing, rejected on
\* any other error.
C28_Original ==
    \A i \in 1..Len(renames) :
        renames[i].pc = "returned" =>
            CASE renames[i].err = "other" -> renames[i].promise = "rejected"
              [] OTHER -> renames[i].promise = "resolved with null"

(***************************************************************************)
(* Formatter.formatDocument: one run of the format tool per invocation,    *)
(* and a further invocation when goreturns does not know -srcdir.          *)
(***************************************************************************)
MaxFormatRuns == 3

FormatToolSettings == {"", "gofmt", "goimports", "goreturns"}

FormatFlagSettings == {<<>>, <<"-w">>, <<"-s">>, <<"-s", "-w">>}

\* err and stderr of the callback of execFile
FormatErrors == {"none", "ENOENT", "other"}

FormatStderrs == {"", "flag provided but not defined: -srcdir", "other text"}

\* line 21: goConfig['formatTool'] || 'goreturns'
formatTool(cfg) == IF cfg.formatTool = "" THEN "goreturns" ELSE cfg.formatTool

\* lines 26-28: splice out the first -w
RECURSIVE WithoutW(_)
WithoutW(flags) ==
    IF flags = <<>> THEN <<>>
    ELSE IF Head(flags) = "-w" THEN Tail(flags)
    ELSE <<Head(flags)>> \o WithoutW(Tail(flags))

\* lines 23-33: the flags the tool is run with
formatFlags(cfg) ==
    WithoutW(cfg.formatFlags)
        \o (IF formatTool(cfg) \in {"goimports", "goreturns"}
            THEN <<"-srcdir", "filename">> ELSE <<>>)

\* lines 18-38: the executor of a new promise starts the tool
NewRun(cfg) ==
    [pc |-> "execFile", tool |-> formatTool(cfg), flags |-> formatFlags(cfg),
     err |-> "none", stderr |-> "", promise |-> "pending"]

\* line 45: the condition of the retry
Retries(tool, err, stderr) ==
    /\ err = "other"
    /\ tool = "goreturns"
    /\ stderr = "flag provided but not defined: -srcdir"

\* line 16: the call made by a formatting provider
formatDocument ==
    /\ fmtRuns = <<>>
    /\ fmtRuns' = <<NewRun(fmtConfig)>>
    /\ UNCHANGED <<fmtConfig, fmtUpdatePrompts>>
    /\ UNCHANGED <<vgVars, lintVars, instVars, promptVars, pathVars, checkVars, renameVars, lsVars>>

\* lines 48-50 and 65: resolve(textEdits) of the innermost run, and through
\* the then of each retry the resolve of every run around it
ResolveAll(runs) == [k \in 1..Len(runs) |-> [runs[k] EXCEPT !.promise = "resolved"]]

\* lines 38-69: the callback of execFile for the run in flight
FormatCallback(err, stderr) ==
    /\ fmtRuns # <<>>
    /\ LET k == Len(fmtRuns)
           returned == [fmtRuns EXCEPT ![k] =
                            [@ EXCEPT !.pc = "returned", !.err = err, !.stderr = stderr]]
       IN  /\ fmtRuns[k].pc = "execFile"
           /\ IF err = "ENOENT"
              THEN /\ fmtRuns' = [returned EXCEPT ![k].promise = "rejected"]
                   /\ UNCHANGED fmtUpdatePrompts
              ELSE IF Retries(fmtRuns[k].tool, err, stderr)
              THEN /\ k < MaxFormatRuns
                   /\ fmtUpdatePrompts' = fmtUpdatePrompts + 1
                   /\ fmtRuns' = Append(returned, NewRun(fmtConfig))
              ELSE IF err = "other"
              THEN /\ fmtRuns' = [returned EXCEPT ![k].promise = "rejected"]
                   /\ UNCHANGED fmtUpdatePrompts
              ELSE /\ fmtRuns' = ResolveAll(returned)
                   /\ UNCHANGED fmtUpdatePrompts
    /\ UNCHANGED fmtConfig
    /\ UNCHANGED <<vgVars, lintVars, instVars, promptVars, pathVars, checkVars, renameVars, lsVars>>

FormatInit ==
    /\ VGIdle /\ LintInit /\ InstInit /\ CheckIdle /\ RenameIdle /\ PromptIdle /\ PathIdle /\ LSIdle
    /\ fmtConfig \in [formatTool : FormatToolSettings, formatFlags : FormatFlagSettings]
    /\ fmtRuns = <<>>
    /\ fmtUpdatePrompts = 0

FormatNext ==
    \/ formatDocument
    \/ \E err \in FormatErrors, stderr \in FormatStderrs : FormatCallback(err, stderr)

SpecFormat == FormatInit /\ [][FormatNext]_vars

\* no run of the tool is in flight for the call
FormatQuiescent == fmtRuns # <<>> /\ \A k \in 1..Len(fmtRuns) : fmtRuns[k].pc = "returned"

\* C29: a call of formatDocument runs the format tool at most twice (the run
\* and one retry without the flag goreturns rejected), and once no run is in
\* flight the promise the call returned is resolved or rejected.
C29_Original ==
    /\ Len(fmtRuns) <= 2
    /\ FormatQuiescent => fmtRuns[1].promise # "pending"

\* the version command was run and its invocation failed
VersionCommandFailed == vgRanVersion /\ vgPc # "awaitVersion" /\ ~vgExec.ok

\* C30: when the invocation of "gopls version" fails, shouldUpdateLanguageServer
\* returns true and the registry is not fetched.
C30_FailedVersionRecommendsUpdate ==
    VersionCommandFailed => vgPc = "done" /\ vgResult = "true" /\ ~vgFetched

C30_Witness ==
    VersionCommandFailed /\ vgTool = "gopls" /\ vgResult = "true" /\ ~vgFetched

====
